---- MODULE Spec2Model ----
(***************************************************************************)
(* Model of kedro_airflow_k8s/operators/node_pod.py: NodePodOperator, the  *)
(* Airflow operator that assembles a Kubernetes pod specification for one  *)
(* kedro node.                                                             *)
(*                                                                         *)
(* Python values are modelled as follows.  None is the string NoneVal, an  *)
(* omitted keyword argument is the string Omitted, a dict is a function    *)
(* whose DOMAIN is its key set, a list is a sequence.  A call that may     *)
(* raise returns a record [exc, val]: exc = "none" when it returned val.   *)
(* The text of the pod template is a sequence of segments, one for each    *)
(* piece of text the property concatenates, in the order of concatenation. *)
(***************************************************************************)
EXTENDS Integers, Sequences, FiniteSets, TLC

VARIABLES
    ops,        \* the NodePodOperator instances whose __init__ returned
    attempt,    \* the most recent call of NodePodOperator(...) and its outcome
    renders,    \* every evaluation of the minimal_pod_template property
    used,       \* the uuid4 tokens drawn so far
    submitted,  \* the config_file values handed over when a task is run
    rin,        \* arguments of a direct call of one of the static methods
    rout        \* outcome of that call

vars == <<ops, attempt, renders, used, submitted, rin, rout>>

----------------------------------------------------------------------------
(* Bounds of the model *)

MaxOps == 2
MaxTokens == 3
MaxSubmits == 2

(* Python values *)

NoneVal == "<None>"
Omitted == "<omitted>"
EmptyDict == << >>

Truthy(v) == v # NoneVal /\ v # ""

PyStr(v) == IF v = NoneVal THEN "None" ELSE v

Default(v, d) == IF v = Omitted THEN d ELSE v

Put(d, k, v) == [x \in (DOMAIN d) \cup {k} |-> IF x = k THEN v ELSE d[x]]

Ok(v) == [exc |-> "none", val |-> v]

Raise(e) == [exc |-> e, val |-> EmptyDict]

(* Names bound at module level of node_pod.py (imports and the class). *)
ModuleGlobals ==
    {"uuid", "List", "Dict", "Optional", "PodGenerator",
     "KubernetesPodOperator", "k8s", "NodePodOperator"}

Tokens == 1..MaxTokens

----------------------------------------------------------------------------
(* NodePodOperator.create_resources *)

create_resources(requests_cpu, requests_memory, limits_cpu, limits_memory) ==
    LET r0 == EmptyDict
        r1 == IF Truthy(requests_cpu)
                THEN Put(r0, "request_cpu", requests_cpu) ELSE r0
        r2 == IF Truthy(requests_memory)
                THEN Put(r1, "request_memory", requests_memory) ELSE r1
        r3 == IF Truthy(limits_cpu)
                THEN Put(r2, "limit_memory", limits_cpu) ELSE r2
        r4 == IF Truthy(limits_memory)
                THEN Put(r3, "limit_cpu", limits_memory) ELSE r3
    IN  r4

(* NodePodOperator.create_security_context: the key of the dict display is *)
(* the name fs_group, which is looked up when the display is evaluated.    *)
create_security_context(volume_disabled, volume_owner) ==
    IF ~volume_disabled
      THEN IF "fs_group" \in ModuleGlobals
             THEN Ok(Put(EmptyDict, "fs_group", volume_owner))
             ELSE Raise("NameError")
      ELSE Ok(EmptyDict)

----------------------------------------------------------------------------
(* NodePodOperator.minimal_pod_template, given the token uuid4 returned *)

(* uuid.UUID.hex: the value written as HexWidth hexadecimal digits. *)
HexWidth == 32

HexDigit(d) ==
    <<"0", "1", "2", "3", "4", "5", "6", "7",
      "8", "9", "a", "b", "c", "d", "e", "f">>[d + 1]

RECURSIVE HexDigits(_, _)
HexDigits(n, width) ==
    IF width = 0 THEN << >>
    ELSE Append(HexDigits(n \div 16, width - 1), HexDigit(n % 16))

(* The hex form of every token of the model, computed once *)
HexTable == [n \in 0..MaxTokens |-> HexDigits(n, HexWidth)]

Hex(token) == HexTable[token]

XComPull(key) == <<"{{ task_instance.xcom_pull(key=", key, ") }}">>

(* Variants of the template on which the properties below must fail *)
minimal_pod_template_VolumesByClaim(self, token) ==
    <<[seg |-> "pod", apiVersion |-> "v1", kind |-> "Pod",
       name |-> <<self.task_id, ".">> \o Hex(token), container |-> "base"]>>
    \o (IF self.mlflow_enabled
          THEN <<[seg |-> "env", name |-> "MLFLOW_RUN_ID",
                  value |-> XComPull("mlflow_run_id")]>>
          ELSE << >>)
    \o (IF self.pvc_name # NoneVal
          THEN <<[seg |-> "volumes", name |-> "storage",
                  claimName |-> PyStr(self.pvc_name)]>>
          ELSE << >>)

minimal_pod_template_FixedToken(self, token) ==
    <<[seg |-> "pod", apiVersion |-> "v1", kind |-> "Pod",
       name |-> <<self.task_id, ".">> \o Hex(0), container |-> "base"]>>
    \o (IF self.mlflow_enabled
          THEN <<[seg |-> "env", name |-> "MLFLOW_RUN_ID",
                  value |-> XComPull("mlflow_run_id")]>>
          ELSE << >>)
    \o (IF ~self.volume_disabled
          THEN <<[seg |-> "volumes", name |-> "storage",
                  claimName |-> PyStr(self.pvc_name)]>>
          ELSE << >>)

minimal_pod_template_AlwaysMlflow(self, token) ==
    <<[seg |-> "pod", apiVersion |-> "v1", kind |-> "Pod",
       name |-> <<self.task_id, ".">> \o Hex(token), container |-> "base"]>>
    \o <<[seg |-> "env", name |-> "MLFLOW_RUN_ID",
          value |-> XComPull("mlflow_run_id")]>>
    \o (IF ~self.volume_disabled
          THEN <<[seg |-> "volumes", name |-> "storage",
                  claimName |-> PyStr(self.pvc_name)]>>
          ELSE << >>)

minimal_pod_template(self, token) ==
    LET header == <<[seg |-> "pod", apiVersion |-> "v1", kind |-> "Pod",
                     name |-> <<self.task_id, ".">> \o Hex(token),
                     container |-> "base"]>>
        mlflow == IF self.mlflow_enabled
                    THEN <<[seg |-> "env", name |-> "MLFLOW_RUN_ID",
                            value |-> XComPull("mlflow_run_id")]>>
                    ELSE << >>
        volumes == IF ~self.volume_disabled
                     THEN <<[seg |-> "volumes", name |-> "storage",
                             claimName |-> PyStr(self.pvc_name)]>>
                     ELSE << >>
    IN  header \o mlflow \o volumes

Arguments_NodeBeforePipeline(env, pipeline, node_name) ==
    <<"kedro", "run", "-e", env, "--node", node_name, "--pipeline", pipeline>>

(* The arguments list built in __init__ *)
Arguments(env, pipeline, node_name) ==
    <<"kedro", "run", "-e", env, "--pipeline", pipeline, "--node", node_name>>

(* The volume_mounts list built in __init__ *)
VolumeMounts(volume_disabled, source) ==
    IF ~volume_disabled
      THEN <<[mount_path |-> source, name |-> "storage"]>>
      ELSE << >>

----------------------------------------------------------------------------
(* Inputs of the constructor *)

TaskIds == {"train-model", "split-data"}
PvcNames == {NoneVal, "shared-pvc"}
VolumeOwners == {0, 1000}
Pipelines == {Omitted, "training"}
Sources == {Omitted, "/mnt/data"}
CpuRequests == {NoneVal, "", "500m"}
MemoryRequests == {NoneVal, "", "1Gi"}
CpuLimits == {NoneVal, "", "2"}
MemoryLimits == {NoneVal, "", "4Gi"}

(* Every combination of the optional arguments, for one call *)
ConstructorInputs ==
    [ node_name : {"train"}, namespace : {"airflow"},
      image : {"img:1"}, image_pull_policy : {"IfNotPresent"},
      env : {"pipelines"},
      task_id : TaskIds, pipeline : Pipelines, pvc_name : PvcNames,
      startup_timeout : {Omitted}, volume_disabled : BOOLEAN,
      volume_owner : VolumeOwners, mlflow_enabled : BOOLEAN,
      requests_cpu : {NoneVal, "500m"}, requests_memory : {NoneVal, "1Gi"},
      limits_cpu : {NoneVal, "2"}, limits_memory : {NoneVal, "4Gi"},
      source : Sources ]

(* The calls made while several operators are built, read and run *)
DagInputs ==
    [ node_name : {"train"}, namespace : {"airflow"},
      image : {"img:1"}, image_pull_policy : {"IfNotPresent"},
      env : {"pipelines"},
      task_id : TaskIds, pipeline : {Omitted}, pvc_name : {"shared-pvc"},
      startup_timeout : {Omitted}, volume_disabled : BOOLEAN,
      volume_owner : {0}, mlflow_enabled : BOOLEAN,
      requests_cpu : {NoneVal}, requests_memory : {NoneVal},
      limits_cpu : {NoneVal}, limits_memory : {NoneVal},
      source : {Omitted} ]

NoCall == [fn |-> "none"]

NoAttempt == [called |-> FALSE, exc |-> "none"]

(* Inputs of a direct call of the static methods *)
StaticInputs ==
    [ fn : {"static"},
      requests_cpu : CpuRequests, requests_memory : MemoryRequests,
      limits_cpu : CpuLimits, limits_memory : MemoryLimits,
      volume_disabled : BOOLEAN, volume_owner : VolumeOwners ]

NotCalled == [fn |-> "none", exc |-> "none", val |-> EmptyDict]

----------------------------------------------------------------------------
(* uuid.uuid4(): a token that no earlier call returned. *)
uuid4 == Tokens \ used

(* The fields __init__ stores on self before it calls super().__init__ *)
SelfFields(in) ==
    [ task_id |-> in.task_id, volume_disabled |-> in.volume_disabled,
      pvc_name |-> in.pvc_name, mlflow_enabled |-> in.mlflow_enabled ]

(* The operator __init__ leaves behind when no argument of             *)
(* super().__init__ raises; token is what uuid4 returned while the      *)
(* config_file argument was evaluated.                                  *)
Operator(in, security_context, token) ==
    [ task_id |-> in.task_id,
      volume_disabled |-> in.volume_disabled,
      pvc_name |-> in.pvc_name,
      mlflow_enabled |-> in.mlflow_enabled,
      name |-> in.task_id,
      security_context |-> security_context,
      namespace |-> in.namespace,
      image |-> in.image,
      image_pull_policy |-> in.image_pull_policy,
      arguments |-> Arguments(in.env, Default(in.pipeline, "__default__"),
                              in.node_name),
      volume_mounts |-> VolumeMounts(in.volume_disabled,
                                     Default(in.source, "/home/kedro/data")),
      resources |-> create_resources(in.requests_cpu, in.requests_memory,
                                     in.limits_cpu, in.limits_memory),
      startup_timeout_seconds |-> Default(in.startup_timeout, 600),
      is_delete_operator_pod |-> TRUE,
      config_file |-> minimal_pod_template(SelfFields(in), token) ]

(* NodePodOperator(...): the arguments of super().__init__ are evaluated  *)
(* in the order written, security_context before config_file.            *)
Construct(in) ==
    /\ Len(ops) < MaxOps
    /\ LET sc == create_security_context(in.volume_disabled, in.volume_owner)
       IN  IF sc.exc # "none"
             THEN /\ attempt' = [called |-> TRUE, exc |-> sc.exc]
                  /\ UNCHANGED <<ops, renders, used>>
             ELSE \E token \in uuid4 :
                    LET op == Operator(in, sc.val, token)
                    IN  /\ ops' = Append(ops, op)
                        /\ renders' = Append(renders,
                               [op |-> Len(ops) + 1, at |-> "__init__",
                                doc |-> op.config_file])
                        /\ used' = used \cup {token}
                        /\ attempt' = [called |-> TRUE, exc |-> "none"]
    /\ UNCHANGED <<submitted, rin, rout>>

AccessTemplate_ClearsFlag(i) ==
    /\ i \in 1..Len(ops)
    /\ \E token \in uuid4 :
         /\ renders' = Append(renders,
                [op |-> i, at |-> "access",
                 doc |-> minimal_pod_template(ops[i], token)])
         /\ used' = used \cup {token}
    /\ ops' = [ops EXCEPT ![i].mlflow_enabled = FALSE]
    /\ UNCHANGED <<attempt, submitted, rin, rout>>

(* A read of op.minimal_pod_template on a constructed operator *)
AccessTemplate(i) ==
    /\ i \in 1..Len(ops)
    /\ \E token \in uuid4 :
         /\ renders' = Append(renders,
                [op |-> i, at |-> "access",
                 doc |-> minimal_pod_template(ops[i], token)])
         /\ used' = used \cup {token}
    /\ UNCHANGED <<ops, attempt, submitted, rin, rout>>

Execute_Rerender(i) ==
    /\ i \in 1..Len(ops)
    /\ Len(submitted) < MaxSubmits
    /\ \E token \in uuid4 :
         LET doc == minimal_pod_template(ops[i], token)
         IN  /\ submitted' = Append(submitted, [op |-> i, config_file |-> doc])
             /\ renders' = Append(renders,
                                  [op |-> i, at |-> "access", doc |-> doc])
             /\ used' = used \cup {token}
    /\ UNCHANGED <<ops, attempt, rin, rout>>

(* A run of the task: the base operator works from the config_file value *)
(* it was given in __init__.                                             *)
Execute(i) ==
    /\ i \in 1..Len(ops)
    /\ Len(submitted) < MaxSubmits
    /\ submitted' = Append(submitted,
                           [op |-> i, config_file |-> ops[i].config_file])
    /\ UNCHANGED <<ops, attempt, renders, used, rin, rout>>

Init ==
    /\ ops = << >>
    /\ attempt = NoAttempt
    /\ renders = << >>
    /\ used = {}
    /\ submitted = << >>
    /\ rin = NoCall
    /\ rout = NotCalled

Next ==
    \/ \E in \in DagInputs : Construct(in)
    \/ \E i \in 1..MaxOps : AccessTemplate(i)
    \/ \E i \in 1..MaxOps : Execute(i)

Spec == Init /\ [][Next]_vars

----------------------------------------------------------------------------
(* Direct calls of the static methods *)

CallCreateResources ==
    /\ rout' = [fn |-> "create_resources"] @@
               Ok(create_resources(rin.requests_cpu, rin.requests_memory,
                                   rin.limits_cpu, rin.limits_memory))
    /\ UNCHANGED <<ops, attempt, renders, used, submitted, rin>>

CallCreateSecurityContext ==
    /\ rout' = [fn |-> "create_security_context"] @@
               create_security_context(rin.volume_disabled, rin.volume_owner)
    /\ UNCHANGED <<ops, attempt, renders, used, submitted, rin>>

InitStatic ==
    /\ ops = << >>
    /\ attempt = NoAttempt
    /\ renders = << >>
    /\ used = {}
    /\ submitted = << >>
    /\ rin \in StaticInputs
    /\ rout = NotCalled

NextStatic ==
    \/ CallCreateResources
    \/ CallCreateSecurityContext

SpecStatic == InitStatic /\ [][NextStatic]_vars

----------------------------------------------------------------------------
(* One operator, over every combination of the constructor's arguments: *)
(* it is built, its template is read and its task is run.                *)

New ==
    /\ ~attempt.called
    /\ Construct(rin)

InitNew ==
    /\ ops = << >>
    /\ attempt = NoAttempt
    /\ renders = << >>
    /\ used = {}
    /\ submitted = << >>
    /\ rin \in ConstructorInputs
    /\ rout = NotCalled

NextNew ==
    \/ New
    \/ \E i \in 1..MaxOps : AccessTemplate(i)
    \/ \E i \in 1..MaxOps : Execute(i)

SpecNew == InitNew /\ [][NextNew]_vars

----------------------------------------------------------------------------
(* Reading a rendered template *)

DocName(doc) == doc[1].name

Segments(doc, kind) == {k \in 1..Len(doc) : doc[k].seg = kind}

MlflowEntries(doc) ==
    {k \in Segments(doc, "env") : doc[k].name = "MLFLOW_RUN_ID"}

HasNoVolumes(doc) ==
    /\ Segments(doc, "volumes") = {}
    /\ \A k \in 1..Len(doc) : "claimName" \notin DOMAIN doc[k]

RendersOf(i) == {k \in 1..Len(renders) : renders[k].op = i}

(* A document has the MLFLOW_RUN_ID entry the flag asks for *)
MlflowEntryAsFlag(doc, mlflow_enabled) ==
    /\ Cardinality(MlflowEntries(doc)) = (IF mlflow_enabled THEN 1 ELSE 0)
    /\ \A k \in MlflowEntries(doc) :
         doc[k].value = <<"{{ task_instance.xcom_pull(key=",
                          "mlflow_run_id", ") }}">>

(* Two documents that differ in the token of the name at most *)
SameButToken(d, e) ==
    /\ SubSeq(DocName(d), 1, 2) = SubSeq(DocName(e), 1, 2)
    /\ Len(d) = Len(e)
    /\ \A k \in 2..Len(d) : d[k] = e[k]
    /\ [d[1] EXCEPT !.name = << >>] = [e[1] EXCEPT !.name = << >>]

RendersAgree ==
    \A j, k \in 1..Len(renders) :
        renders[j].op = renders[k].op =>
            SameButToken(renders[j].doc, renders[k].doc)

FieldsKept ==
    \A i \in 1..Len(ops) :
        /\ ops'[i].task_id = ops[i].task_id
        /\ ops'[i].volume_disabled = ops[i].volume_disabled
        /\ ops'[i].pvc_name = ops[i].pvc_name
        /\ ops'[i].mlflow_enabled = ops[i].mlflow_enabled

----------------------------------------------------------------------------
(* C1: every present resource input is returned under its own key with   *)
(* its own value (requests cpu under request_cpu, requests memory under  *)
(* request_memory, limits cpu under limit_cpu, limits memory under       *)
(* limit_memory), and no key holds another field's value.                *)
C1_OwnKeyOwnValue ==
    rout.fn = "create_resources" =>
        LET own == [ request_cpu |-> rin.requests_cpu,
                     request_memory |-> rin.requests_memory,
                     limit_cpu |-> rin.limits_cpu,
                     limit_memory |-> rin.limits_memory ]
        IN  /\ \A k \in DOMAIN own :
                 Truthy(own[k]) =>
                     k \in DOMAIN rout.val /\ rout.val[k] = own[k]
            /\ \A k \in DOMAIN rout.val :
                 k \in DOMAIN own /\ rout.val[k] = own[k]

(* C2: each of the four keys is in the result exactly when its own input *)
(* is present (neither None nor the empty string), and no key is bound   *)
(* to an empty value.                                                    *)
C2_KeyIffOwnInputPresent ==
    rout.fn = "create_resources" =>
        /\ ("request_cpu" \in DOMAIN rout.val) <=> Truthy(rin.requests_cpu)
        /\ ("request_memory" \in DOMAIN rout.val)
               <=> Truthy(rin.requests_memory)
        /\ ("limit_cpu" \in DOMAIN rout.val) <=> Truthy(rin.limits_cpu)
        /\ ("limit_memory" \in DOMAIN rout.val) <=> Truthy(rin.limits_memory)
        /\ \A k \in DOMAIN rout.val : Truthy(rout.val[k])

(* C3: a construction with volume_disabled = false completes, and its    *)
(* operator has exactly one volume mount, named "storage" at the         *)
(* configured source path, and a security context of exactly one entry   *)
(* whose value is the configured volume_owner.                           *)
C3_VolumeEnabledConstructs ==
    (attempt.called /\ ~rin.volume_disabled) =>
        /\ attempt.exc = "none"
        /\ Len(ops) = 1
        /\ ops[1].volume_mounts =
               <<[mount_path |-> IF rin.source = Omitted
                                   THEN "/home/kedro/data" ELSE rin.source,
                  name |-> "storage"]>>
        /\ Cardinality(DOMAIN ops[1].security_context) = 1
        /\ \A k \in DOMAIN ops[1].security_context :
               ops[1].security_context[k] = rin.volume_owner

(* C4: an operator constructed with volume_disabled = true has no volume *)
(* mount and an empty security context, and none of its renders (the one *)
(* kept as config_file included) has a volumes block or a claim          *)
(* reference, whatever pvc_name, volume_owner and source were.           *)
C4_VolumeDisabledLeavesNoVolume ==
    (attempt.called /\ attempt.exc = "none" /\ rin.volume_disabled) =>
        /\ ops[1].volume_mounts = << >>
        /\ ops[1].security_context = EmptyDict
        /\ HasNoVolumes(ops[1].config_file)
        /\ \A k \in RendersOf(1) : HasNoVolumes(renders[k].doc)

C4_Witness ==
    /\ attempt.called /\ attempt.exc = "none" /\ rin.volume_disabled
    /\ rin.pvc_name = "shared-pvc"
    /\ rin.volume_owner = 1000
    /\ rin.source = "/mnt/data"
    /\ \E k \in RendersOf(1) : renders[k].at = "access"

(* C5: the config file is rendered when the task is submitted and not    *)
(* when the operator is constructed: no render happens in __init__, and  *)
(* two submissions of one operator carry different generated names.      *)
C5_ConfigFileRenderedLazily ==
    /\ \A k \in 1..Len(renders) : renders[k].at # "__init__"
    /\ \A j, k \in 1..Len(submitted) :
         (j # k /\ submitted[j].op = submitted[k].op) =>
             DocName(submitted[j].config_file)
                 # DocName(submitted[k].config_file)

(* C5, as amended: the document is rendered once per operator, while    *)
(* __init__ evaluates the config_file argument, and the value kept is    *)
(* what every submission of that operator carries, so two submissions of *)
(* one operator carry the same generated name; only a later read of the  *)
(* property renders again, and that render is not what is submitted.     *)
C5_ConfigFileRenderedOnceAtInit ==
    /\ \A i \in 1..Len(ops) :
         /\ Cardinality({k \in RendersOf(i) : renders[k].at = "__init__"}) = 1
         /\ \A k \in RendersOf(i) :
              (renders[k].at = "__init__") <=>
                  (renders[k].doc = ops[i].config_file)
    /\ \A j \in 1..Len(submitted) :
         /\ submitted[j].config_file = ops[submitted[j].op].config_file
         /\ \A k \in 1..Len(renders) :
              renders[k].at = "access" =>
                  DocName(renders[k].doc) # DocName(submitted[j].config_file)
    /\ \A j, k \in 1..Len(submitted) :
         submitted[j].op = submitted[k].op =>
             DocName(submitted[j].config_file)
                 = DocName(submitted[k].config_file)

C5_Witness ==
    /\ Len(submitted) = 2
    /\ submitted[1].op = submitted[2].op
    /\ \E k \in RendersOf(submitted[1].op) : renders[k].at = "access"

(* C6: no generated name is produced by two renders, of one operator or  *)
(* of several with the same task id; every name is the task id, a dot    *)
(* and the token, so the renders of one operator share the prefix.       *)
C6_NamesNeverRepeat ==
    /\ \A j, k \in 1..Len(renders) :
         j # k => DocName(renders[j].doc) # DocName(renders[k].doc)
    /\ \A k \in 1..Len(renders) :
         LET name == DocName(renders[k].doc)
         IN  /\ Len(name) = 2 + HexWidth
             /\ name[1] = ops[renders[k].op].task_id
             /\ name[2] = "."
             /\ \E t \in used : SubSeq(name, 3, Len(name)) = Hex(t)

C6_Witness ==
    /\ Len(ops) = 2
    /\ ops[1].task_id = ops[2].task_id
    /\ Cardinality(RendersOf(1)) >= 2
    /\ RendersOf(2) # {}

(* C7: a render has exactly one MLFLOW_RUN_ID entry, whose value pulls   *)
(* key "mlflow_run_id", when mlflow_enabled is true and none when it is  *)
(* false, whatever the volume flag and the claim name are.               *)
C7_MlflowEntryIffEnabled ==
    /\ \A k \in 1..Len(renders) :
         MlflowEntryAsFlag(renders[k].doc, rin.mlflow_enabled)
    /\ \A i \in 1..Len(ops) :
         MlflowEntryAsFlag(ops[i].config_file, rin.mlflow_enabled)
    /\ \A vd \in BOOLEAN, pvc \in PvcNames, t \in used :
         MlflowEntryAsFlag(
             minimal_pod_template(
                 [SelfFields(rin) EXCEPT !.volume_disabled = vd,
                                         !.pvc_name = pvc], t),
             rin.mlflow_enabled)

C7_Witness ==
    /\ \E k \in 1..Len(renders) :
         /\ renders[k].at = "access"
         /\ MlflowEntries(renders[k].doc) # {}
    /\ rin.mlflow_enabled
    /\ rin.pvc_name = "shared-pvc"

(* C8: the constructor raises for no combination of its arguments.       *)
C8_ConstructionNeverRaises ==
    attempt.called => attempt.exc = "none" /\ Len(ops) = 1

(* C9: the arguments of every constructed operator are the eight tokens  *)
(* kedro run -e <env> --pipeline <pipeline> --node <node_name>, in that  *)
(* order, with "__default__" for an omitted pipeline, whatever the       *)
(* optional arguments are.                                               *)
C9_ArgumentsFixed ==
    \A i \in 1..Len(ops) :
        /\ Len(ops[i].arguments) = 8
        /\ ops[i].arguments[1] = "kedro"
        /\ ops[i].arguments[2] = "run"
        /\ ops[i].arguments[3] = "-e"
        /\ ops[i].arguments[4] = rin.env
        /\ ops[i].arguments[5] = "--pipeline"
        /\ ops[i].arguments[6] =
               (IF rin.pipeline = Omitted THEN "__default__"
                                          ELSE rin.pipeline)
        /\ ops[i].arguments[7] = "--node"
        /\ ops[i].arguments[8] = rin.node_name

C9_Witness ==
    /\ Len(ops) = 1
    /\ rin.pipeline = Omitted
    /\ rin.requests_cpu = "500m" /\ rin.limits_memory = "4Gi"
    /\ rin.pvc_name = "shared-pvc"
    /\ ~rin.mlflow_enabled

(* C10: a render leaves task id, volume flag, claim name and mlflow flag *)
(* of every operator as they were, and any two renders of one operator   *)
(* agree in everything but the token: same task-id prefix, same          *)
(* MLFLOW_RUN_ID entry or none, same volumes block or none.              *)
C10_RenderChangesOnlyToken == []RendersAgree /\ [][FieldsKept]_vars

C10_Witness ==
    \E i \in 1..Len(ops) :
        /\ ops[i].mlflow_enabled
        /\ \E j, k \in RendersOf(i) :
             j # k /\ renders[j].at = "access" /\ renders[k].at = "access"

====
